---------------------------- MODULE Spec2Model ----------------------------
(***************************************************************************)
(* A model of src/src/utils.py, the inspection helpers of the CIC-IDS-2017 *)
(* exploration notebooks: file discovery (list_csv_files, pick_file),      *)
(* loading (load_peek, load_full), column hygiene (clean_column_names,     *)
(* find_suspicious_columns) and the audit (basic_audit, numeric_summary).  *)
(*                                                                         *)
(* Text is a sequence of Unicode code points, so that stripping, BOM       *)
(* removal, lower-casing, prefix tests, glob matching and the ordering of  *)
(* paths are computed and not assumed.  A call either raises or returns;   *)
(* `ret` holds the outcome of the last call.                               *)
(*                                                                         *)
(* The helpers are independent, so the module has one specification per    *)
(* group of helpers: SpecFiles, SpecLoad, SpecHygiene and SpecAudit.  The  *)
(* variables of the other groups stay at their idle value.                 *)
(***************************************************************************)
EXTENDS Integers, Sequences, FiniteSets

VARIABLES
    fsExists,   \* does data_raw_dir exist
    fsFiles,    \* the files below data_raw_dir: relative path -> st_size
    csvFile,    \* the file at csv_path: NoFile, or its header and data rows
    heap,       \* the DataFrame objects alive: object id -> table
    out,        \* the object id the last clean_column_names returned, 0 if none
    cleanedFrom,\* per object: k if it is the cleaning of object k, -k once the
                \* caller has renamed it since, 0 if the caller built it (history)
    df0,        \* the table the caller built, as it was built (history)
    ret         \* the outcome of the last call

vars == <<fsExists, fsFiles, csvFile, heap, out, cleanedFrom, df0, ret>>

---------------------------------------------------------------------------
(* Bounds of the model. *)

MaxNameLen == 3     \* length of a generated column name
MaxCols == 3        \* columns of a generated table
MaxRows == 4        \* rows of a generated table

---------------------------------------------------------------------------
(* Text: sequences of code points. *)

BOM == 65279

\* The characters str.strip() removes (Python's str.isspace).
Whitespace ==
    {9, 10, 11, 12, 13, 28, 29, 30, 31, 32, 133, 160, 5760, 8232, 8233,
     8239, 8287, 12288} \cup (8192 .. 8202)

SeqsUpTo(S, n) == UNION {[1 .. k -> S] : k \in 0 .. n}

RECURSIVE lstrip(_)
lstrip(s) ==
    IF s # <<>> /\ Head(s) \in Whitespace THEN lstrip(Tail(s)) ELSE s

RECURSIVE rstrip(_)
rstrip(s) ==
    IF s # <<>> /\ s[Len(s)] \in Whitespace
    THEN rstrip(SubSeq(s, 1, Len(s) - 1))
    ELSE s

\* str.strip()
strip(s) == rstrip(lstrip(s))

\* str.replace(old, "") for a one-character old
RECURSIVE remove_char(_, _)
remove_char(s, c) ==
    IF s = <<>> THEN <<>>
    ELSE IF Head(s) = c THEN remove_char(Tail(s), c)
    ELSE <<Head(s)>> \o remove_char(Tail(s), c)

\* c in s
contains(s, c) == \E i \in 1 .. Len(s) : s[i] = c

\* str.lower(), on the ASCII letters
lower(s) == [i \in 1 .. Len(s) |-> IF s[i] \in 65 .. 90 THEN s[i] + 32 ELSE s[i]]

\* s.startswith(p)
startswith(s, p) == Len(s) >= Len(p) /\ SubSeq(s, 1, Len(p)) = p

\* s.endswith(p)
endswith(s, p) ==
    Len(s) >= Len(p) /\ SubSeq(s, Len(s) - Len(p) + 1, Len(s)) = p

\* s < t for str: lexicographic on code points
RECURSIVE str_lt(_, _)
str_lt(s, t) ==
    IF t = <<>> THEN FALSE
    ELSE IF s = <<>> THEN TRUE
    ELSE IF Head(s) # Head(t) THEN Head(s) < Head(t)
    ELSE str_lt(Tail(s), Tail(t))

Range(xs) == {xs[i] : i \in 1 .. Len(xs)}

Min(a, b) == IF a <= b THEN a ELSE b

\* A call's outcome.
Idle == [op |-> "none"]
Raise(op, args, exc) == [op |-> op, args |-> args, raised |-> exc]
Return(op, args, value) == [op |-> op, args |-> args, raised |-> "no", value |-> value]

NotFound == "FileNotFoundError"

---------------------------------------------------------------------------
(* File discovery / acquisition. *)

\* The relative paths a file of the model may have below data_raw_dir:
\* "B.csv", "a.csv", "b.csv", "notes.txt", "sub/c.csv".
FileNames ==
    { <<66, 46, 99, 115, 118>>,
      <<97, 46, 99, 115, 118>>,
      <<98, 46, 99, 115, 118>>,
      <<110, 111, 116, 101, 115, 46, 116, 120, 116>>,
      <<115, 117, 98, 47, 99, 46, 99, 115, 118>> }

\* st_size of a file of the model: about 0.019 MiB, 1 MiB, 2 MiB.
FileSizes == {20000, 1048576, 2097152}

\* preferred_name: None, "", a file's relative path, or "zz.csv" (no such file).
NoName == <<0>>
PreferredNames == {NoName, <<>>, <<122, 122, 46, 99, 115, 118>>} \cup FileNames

\* Path.exists() of data_raw_dir / rel
path_exists(rel) == fsExists /\ rel \in DOMAIN fsFiles

\* The entries directly inside data_raw_dir (a path with "/" is deeper).
children == IF fsExists THEN {p \in DOMAIN fsFiles : ~contains(p, 47)} ELSE {}

\* fnmatch of a name against "*.csv"
matches_csv(name) == endswith(name, <<46, 99, 115, 118>>)

\* What data_raw_dir.glob("*.csv") may yield: the matching children, in any
\* order (the order of the directory scan).
glob_csv ==
    LET m == {p \in children : matches_csv(p)}
    IN  {o \in [1 .. Cardinality(m) -> m] :
            \A i, j \in DOMAIN o : i # j => o[i] # o[j]}

\* sorted(paths): insertion sort by the path's text
RECURSIVE insert_sorted(_, _)
insert_sorted(x, xs) ==
    IF xs = <<>> THEN <<x>>
    ELSE IF str_lt(x, Head(xs)) THEN <<x>> \o xs
    ELSE <<Head(xs)>> \o insert_sorted(x, Tail(xs))

RECURSIVE sorted_rec(_)
sorted_rec(xs) ==
    IF xs = <<>> THEN <<>> ELSE insert_sorted(Head(xs), sorted_rec(Tail(xs)))

unsorted(xs) == xs

sorted(xs) == sorted_rec(xs)

\* round(st_size / 1024**2, 2), in hundredths of a MiB.  The quotient is
\* exact in binary floating point, and round() goes to the nearest
\* hundredth, an exact tie to the even one.
MiB == 1024 * 1024

round2(bytes) ==
    LET q == (bytes * 100) \div MiB
        r == (bytes * 100) % MiB
    IN  IF 2 * r < MiB THEN q
        ELSE IF 2 * r > MiB THEN q + 1
        ELSE IF q % 2 = 0 THEN q ELSE q + 1

size_mb(f) == round2(fsFiles[f])

\* list_csv_files(data_raw_dir), given the order the glob yielded
list_csv_files(order) ==
    IF ~fsExists THEN Raise("list_csv_files", <<>>, NotFound)
    ELSE LET csv_files == sorted(order)
         IN  IF csv_files = <<>> THEN Raise("list_csv_files", <<>>, NotFound)
             ELSE Return("list_csv_files", <<>>,
                         [i \in 1 .. Len(csv_files) |->
                             [file |-> csv_files[i],
                              size_mb |-> size_mb(csv_files[i])]])

pick_file_listing_only(order, preferred_name) ==
    LET csv_files == sorted(order)
    IN  IF csv_files = <<>> THEN Raise("pick_file", preferred_name, NotFound)
        ELSE IF /\ preferred_name # NoName
                /\ preferred_name # <<>>
                /\ preferred_name \in Range(csv_files)
             THEN Return("pick_file", preferred_name, preferred_name)
             ELSE Return("pick_file", preferred_name, csv_files[1])

pick_file_no_check(order, preferred_name) ==
    LET csv_files == sorted(order)
    IN  IF /\ preferred_name # NoName
           /\ preferred_name # <<>>
           /\ path_exists(preferred_name)
        THEN Return("pick_file", preferred_name, preferred_name)
        ELSE IF csv_files = <<>> THEN Raise("pick_file", preferred_name, NotFound)
        ELSE Return("pick_file", preferred_name, csv_files[1])

\* pick_file(data_raw_dir, preferred_name), given the order the glob yielded
pick_file(order, preferred_name) ==
    LET csv_files == sorted(order)
    IN  IF csv_files = <<>> THEN Raise("pick_file", preferred_name, NotFound)
        ELSE IF /\ preferred_name # NoName
                /\ preferred_name # <<>>
                /\ path_exists(preferred_name)
             THEN Return("pick_file", preferred_name, preferred_name)
             ELSE Return("pick_file", preferred_name, csv_files[1])

NoFile == [exists |-> FALSE]
EmptyHeap == <<>>

IdleTables == heap = EmptyHeap /\ out = 0 /\ cleanedFrom = <<>> /\ df0 = 0

InitFiles ==
    /\ fsExists \in BOOLEAN
    /\ fsFiles \in IF fsExists
                   THEN UNION {[S -> FileSizes] : S \in SUBSET FileNames}
                   ELSE {<<>>}
    /\ csvFile = NoFile
    /\ IdleTables
    /\ ret = Idle

ListCsvFiles ==
    /\ \E order \in glob_csv : ret' = list_csv_files(order)
    /\ UNCHANGED <<fsExists, fsFiles, csvFile, heap, out, cleanedFrom, df0>>

PickFile ==
    /\ \E order \in glob_csv, preferred_name \in PreferredNames :
          ret' = pick_file(order, preferred_name)
    /\ UNCHANGED <<fsExists, fsFiles, csvFile, heap, out, cleanedFrom, df0>>

NextFiles == ListCsvFiles \/ PickFile

SpecFiles == InitFiles /\ [][NextFiles]_vars

---------------------------------------------------------------------------
(* Tables.  A column label is text or not (an integer label); txt is its  *)
(* text form, str(label).  A table has its labels, a storage type per     *)
(* column and its rows, each row a cell per column.                       *)

Text(s) == [str |-> TRUE, txt |-> s]
IntLabel(n) == [str |-> FALSE, txt |-> <<48 + n>>]

NaN == 0 - 1

Table(columns, dtypes, rows) ==
    [columns |-> columns, dtypes |-> dtypes, rows |-> rows]

\* str(label)
Str(label) == label.txt

\* Index.astype(str)
astype_str(columns) == [i \in DOMAIN columns |-> Text(Str(columns[i]))]

\* Index.str.replace(U+FEFF, "", regex=False), on text labels
str_replace_bom(columns) ==
    [i \in DOMAIN columns |-> Text(remove_char(columns[i].txt, BOM))]

str_lstrip(columns) == [i \in DOMAIN columns |-> Text(lstrip(columns[i].txt))]

\* Index.str.strip(), on text labels
str_strip(columns) == [i \in DOMAIN columns |-> Text(strip(columns[i].txt))]

\* Index.duplicated(): is position i a repeat of an earlier label
duplicated(columns, i) == \E j \in 1 .. i - 1 : columns[j] = columns[i]

---------------------------------------------------------------------------
(* Loading helpers. *)

\* The column names read_csv gives a header: a leading byte-order mark of
\* the file is dropped, a blank cell is named "Unnamed: <position>", and a
\* repeated name gets ".<n>" appended.
header_names(header) ==
    LET raw(i) == IF i = 1 /\ header[i] # <<>> /\ Head(header[i]) = BOM
                  THEN Tail(header[i]) ELSE header[i]
        named(i) == IF raw(i) = <<>>
                    THEN <<85, 110, 110, 97, 109, 101, 100, 58, 32, 48 + (i - 1)>>
                    ELSE raw(i)
        seen(i) == Cardinality({j \in 1 .. i - 1 : named(j) = named(i)})
    IN  [i \in DOMAIN header |->
            Text(IF seen(i) = 0 THEN named(i)
                 ELSE named(i) \o <<46, 48 + seen(i)>>)]

\* pd.read_csv(csv_path, nrows=nrows) of a file that exists; nrows = NaN
\* stands for no nrows.  A file without a header line cannot be parsed.
read_csv(file, nrows) ==
    IF file.header = <<>> THEN [error |-> "EmptyDataError"]
    ELSE LET n == IF nrows = NaN THEN Len(file.rows)
                  ELSE Min(nrows, Len(file.rows))
             rows == SubSeq(file.rows, 1, n)
         IN  [error |-> "no",
              df |-> Table(header_names(file.header),
                           [i \in DOMAIN file.header |->
                               IF rows = <<>> THEN "object" ELSE "int64"],
                           rows)]

\* The body load_peek and load_full share.
load(op, nrows) ==
    IF ~csvFile.exists THEN Raise(op, nrows, NotFound)
    ELSE LET r == read_csv(csvFile, nrows)
         IN  IF r.error # "no" THEN Raise(op, nrows, r.error)
             ELSE Return(op, nrows,
                         [r.df EXCEPT !.columns = str_strip(r.df.columns)])

load_peek_all_rows(nrows) == load("load_peek", NaN)

load_peek(nrows) == load("load_peek", nrows)

load_full == load("load_full", NaN)

\* Header cells of a generated file: "", "a", " a", "a ", and a
\* byte-order mark before "a".
HeaderCells == {<<>>, <<97>>, <<32, 97>>, <<97, 32>>, <<BOM, 97>>}

\* A data row of k cells, all holding v.
ConstRow(k, v) == [j \in 1 .. k |-> v]

\* The files csv_path may name: any header over HeaderCells with one data
\* row, and a two-column header with any rows of 0s and 1s.
CsvFiles ==
    {[exists |-> TRUE, header |-> h, rows |-> <<ConstRow(Len(h), 0)>>] :
        h \in SeqsUpTo(HeaderCells, MaxCols)}
    \cup
    {[exists |-> TRUE, header |-> <<<<32, 97, 32>>, <<98>>>>,
      rows |-> [i \in DOMAIN vs |-> ConstRow(2, vs[i])]] :
        vs \in SeqsUpTo({0, 1}, MaxRows)}

InitLoad ==
    /\ fsExists = FALSE
    /\ fsFiles = <<>>
    /\ csvFile \in {NoFile} \cup CsvFiles
    /\ IdleTables
    /\ ret = Idle

LoadPeek ==
    /\ \E nrows \in 0 .. MaxRows + 1 : ret' = load_peek(nrows)
    /\ UNCHANGED <<fsExists, fsFiles, csvFile, heap, out, cleanedFrom, df0>>

LoadFull ==
    /\ ret' = load_full
    /\ UNCHANGED <<fsExists, fsFiles, csvFile, heap, out, cleanedFrom, df0>>

NextLoad == LoadPeek \/ LoadFull

SpecLoad == InitLoad /\ [][NextLoad]_vars

---------------------------------------------------------------------------
(* Column hygiene. *)

clean_names_strip_first(columns) ==
    str_replace_bom(str_strip(astype_str(columns)))

\* The new column index of clean_column_names.
clean_names(columns) == str_strip(str_replace_bom(astype_str(columns)))

clean_column_names_in_place(h, id) ==
    [heap |-> [h EXCEPT ![id].columns = clean_names(h[id].columns)],
     out |-> id]

\* clean_column_names(df) on the heap h, df being object id: df.copy() makes
\* a new object, which gets the new column index and is returned.
clean_column_names(h, id) ==
    LET copy == h[id]
    IN  [heap |-> Append(h, [copy EXCEPT !.columns = clean_names(copy.columns)]),
         out |-> Len(h) + 1]

\* SelectSeq over column labels, for the list comprehensions below
unnamed_test(c) ==
    startswith(lower(Str(c)), <<117, 110, 110, 97, 109, 101, 100>>)

whitespace_test(c) == c.str /\ c.txt # strip(c.txt)

bom_test(c) == c.str /\ contains(c.txt, BOM)

RECURSIVE dup_cols_from(_, _)
dup_cols_from(columns, i) ==
    IF i > Len(columns) THEN <<>>
    ELSE (IF duplicated(columns, i) THEN <<columns[i]>> ELSE <<>>)
         \o dup_cols_from(columns, i + 1)

\* df.columns[df.columns.duplicated()].tolist()
dup_cols(columns) == dup_cols_from(columns, 1)

unnamed_case_sensitive(cols) ==
    SelectSeq(cols, LAMBDA c :
        startswith(Str(c), <<117, 110, 110, 97, 109, 101, 100>>))

unnamed_cols(cols) == SelectSeq(cols, unnamed_test)

\* find_suspicious_columns(df)
find_suspicious_columns(t) ==
    LET cols == t.columns
    IN  [unnamed_columns |-> unnamed_cols(cols),
         duplicate_columns |-> dup_cols(cols),
         whitespace_columns |-> SelectSeq(cols, whitespace_test),
         bom_columns |-> SelectSeq(cols, bom_test)]

\* The labels of a generated one-column table: every text of up to
\* MaxNameLen characters among " ", U+FEFF and "a", and the labels 0 and 1.
NameChars == {32, BOM, 97}
GeneratedLabels ==
    {Text(s) : s \in SeqsUpTo(NameChars, MaxNameLen)}
    \cup {IntLabel(0), IntLabel(1)}

\* The labels of a generated table of several columns: "a", " a",
\* U+FEFF before "a", "b" and the label 0.
FewLabels ==
    {Text(<<97>>), Text(<<32, 97>>), Text(<<BOM, 97>>), Text(<<98>>),
     IntLabel(0)}

\* ["Unnamed: 0", " Flow ID", "Flow ID", U+FEFF + "Label"]
FlowColumns ==
    << Text(<<85, 110, 110, 97, 109, 101, 100, 58, 32, 48>>),
       Text(<<32, 70, 108, 111, 119, 32, 73, 68>>),
       Text(<<70, 108, 111, 119, 32, 73, 68>>),
       Text(<<BOM, 76, 97, 98, 101, 108>>) >>

\* ["UNNAMED: 1", "unnamed", "Unname", " Unnamed"]
UnnamedColumns ==
    << Text(<<85, 78, 78, 65, 77, 69, 68, 58, 32, 49>>),
       Text(<<117, 110, 110, 97, 109, 101, 100>>),
       Text(<<85, 110, 110, 97, 109, 101>>),
       Text(<<32, 85, 110, 110, 97, 109, 101, 100>>) >>

\* A table of the given labels, with no rows.
Named(columns) == Table(columns, [i \in DOMAIN columns |-> "object"], <<>>)

NameTables ==
    {Named(<<c>>) : c \in GeneratedLabels}
    \cup {Named(cs) : cs \in SeqsUpTo(FewLabels, MaxCols)}
    \cup {Named(FlowColumns), Named(UnnamedColumns)}

\* What the caller may later assign to the columns of a returned table.
Renamed(t) == [t EXCEPT !.columns = [i \in DOMAIN t.columns |-> Text(<<120>>)]]

MaxTables == 3      \* DataFrame objects alive at once

InitHygiene ==
    /\ fsExists = FALSE
    /\ fsFiles = <<>>
    /\ csvFile = NoFile
    /\ \E t \in NameTables : heap = <<t>> /\ df0 = t
    /\ out = 0
    /\ cleanedFrom = <<0>>
    /\ ret = Idle

\* out = clean_column_names(df), df any object alive
CleanColumnNames ==
    /\ Len(heap) < MaxTables
    /\ \E id \in DOMAIN heap :
          LET r == clean_column_names(heap, id)
          IN  /\ heap' = r.heap
              /\ out' = r.out
              /\ cleanedFrom' =
                    IF r.out \in DOMAIN cleanedFrom
                    THEN [cleanedFrom EXCEPT ![r.out] = id]
                    ELSE Append(cleanedFrom, id)
              /\ ret' = Return("clean_column_names", id, r.out)
    /\ UNCHANGED <<fsExists, fsFiles, csvFile, df0>>

\* out.columns = [...], the caller changing the table it got back
RenameReturned ==
    /\ out # 0
    /\ heap' = [heap EXCEPT ![out] = Renamed(heap[out])]
    /\ cleanedFrom' = [cleanedFrom EXCEPT ![out] = IF @ > 0 THEN 0 - @ ELSE @]
    /\ ret' = Return("rename", out, out)
    /\ UNCHANGED <<fsExists, fsFiles, csvFile, out, df0>>

\* find_suspicious_columns(df), df any object alive
FindSuspiciousColumns ==
    /\ \E id \in DOMAIN heap :
          ret' = Return("find_suspicious_columns", id,
                        find_suspicious_columns(heap[id]))
    /\ UNCHANGED <<fsExists, fsFiles, csvFile, heap, out, cleanedFrom, df0>>

NextHygiene == CleanColumnNames \/ RenameReturned \/ FindSuspiciousColumns

SpecHygiene == InitHygiene /\ [][NextHygiene]_vars

---------------------------------------------------------------------------
(* Audit / understanding helpers. *)

DefaultMissingTopK == 15
DefaultMaxCols == 25

\* A float that is a quotient of integers.
Frac(num, den) == [num |-> num, den |-> den]

ZeroDivision == "ZeroDivisionError"

\* DataFrame.duplicated(): is row i equal, in every column, to an earlier row
\* (missing cells compare equal to each other)
duplicated_row(rows, i) == \E j \in 1 .. i - 1 : rows[j] = rows[i]

\* int(df.duplicated().sum())
n_duplicates(rows) ==
    Cardinality({i \in DOMAIN rows : duplicated_row(rows, i)})

duplicate_rate_unguarded(n_dup, n) == Frac(n_dup, n)

\* float(n_dup / len(df)) if len(df) else 0.0
duplicate_rate(n_dup, n) == IF n # 0 THEN Frac(n_dup, n) ELSE Frac(0, 1)

\* df.select_dtypes(include=["object"]).columns.tolist()
object_columns(t) ==
    LET pos == SelectSeq([i \in DOMAIN t.columns |-> i],
                         LAMBDA i : t.dtypes[i] = "object")
    IN  [k \in DOMAIN pos |-> t.columns[pos[k]]]

\* df.isna().mean() * 100 of column i: missing cells over rows, NaN when
\* there are no rows
missing_pct(t, i) ==
    IF t.rows = <<>> THEN NaN
    ELSE Frac(100 * Cardinality({r \in DOMAIN t.rows : t.rows[r][i] = NaN}),
              Len(t.rows))

\* sort_values(ascending=False) of the percentages: the numerators of the
\* missing percentages, largest first (all share the denominator).
RECURSIVE insert_desc(_, _)
insert_desc(x, xs) ==
    IF xs = <<>> THEN <<x>>
    ELSE IF x >= Head(xs) THEN <<x>> \o xs
    ELSE <<Head(xs)>> \o insert_desc(x, Tail(xs))

RECURSIVE sort_desc(_)
sort_desc(xs) ==
    IF xs = <<>> THEN <<>> ELSE insert_desc(Head(xs), sort_desc(Tail(xs)))

\* missing_pct.head(missing_top_k): per rank the percentage and the columns
\* that have it; which of several columns of one percentage the sort puts at
\* a rank is the library's choice.
missing_top(t, missing_top_k) ==
    LET n == Len(t.columns)
        ranked == IF t.rows = <<>> THEN [i \in 1 .. n |-> NaN]
                  ELSE sort_desc([i \in 1 .. n |-> missing_pct(t, i).num])
    IN  [k \in 1 .. Min(missing_top_k, n) |->
            IF t.rows = <<>>
            THEN [pct |-> NaN, among |-> Range(t.columns)]
            ELSE [pct |-> Frac(ranked[k], Len(t.rows)),
                  among |-> {t.columns[i] : i \in
                      {j \in 1 .. n : missing_pct(t, j).num = ranked[k]}}]]

\* df[label_col].value_counts(), as value -> occurrences (missing cells are
\* not counted); None when there is no such column
label_counts(t, label_col) ==
    IF ~\E i \in DOMAIN t.columns : t.columns[i] = Text(label_col)
    THEN [present |-> FALSE]
    ELSE LET i == CHOOSE i \in DOMAIN t.columns : t.columns[i] = Text(label_col)
             vals == {t.rows[r][i] : r \in DOMAIN t.rows} \ {NaN}
         IN  [present |-> TRUE,
              counts |-> [v \in vals |->
                  Cardinality({r \in DOMAIN t.rows : t.rows[r][i] = v})]]

\* basic_audit(df, label_col, missing_top_k).  The memory footprint is the library's accounting of its
\* buffers and has no counterpart here.
basic_audit(t, label_col, missing_top_k) ==
    LET n_dup == n_duplicates(t.rows)
        dup_rate == duplicate_rate(n_dup, Len(t.rows))
        args == <<label_col, missing_top_k>>
    IN  IF dup_rate.den = 0 THEN Raise("basic_audit", args, ZeroDivision)
        ELSE Return("basic_audit", args,
                [shape |-> <<Len(t.rows), Len(t.columns)>>,
                 n_duplicates |-> n_dup,
                 duplicate_rate |-> dup_rate,
                 object_columns |-> object_columns(t),
                 missing_top |-> missing_top(t, missing_top_k),
                 label_counts |-> label_counts(t, label_col)])

NumberDtypes == {"int64", "float64"}
Dtypes == NumberDtypes \cup {"object", "bool"}

\* The positions select_dtypes(include=[np.number]) keeps, in column order.
numeric_positions(t) ==
    SelectSeq([i \in DOMAIN t.columns |-> i],
              LAMBDA i : t.dtypes[i] \in NumberDtypes)

\* One row of describe().T: the count, mean, min and max of the cells of
\* column i that are not missing (the standard deviation and the percentiles
\* are real-valued and left out).
describe_column(t, i) ==
    LET vals == {r \in DOMAIN t.rows : t.rows[r][i] # NaN}
        RECURSIVE sum(_)
        sum(S) == IF S = {} THEN 0
                  ELSE LET r == CHOOSE r \in S : TRUE
                       IN  t.rows[r][i] + sum(S \ {r})
    IN  [column |-> t.columns[i],
         count |-> Cardinality(vals),
         mean |-> IF vals = {} THEN NaN ELSE Frac(sum(vals), Cardinality(vals)),
         min |-> IF vals = {} THEN NaN
                 ELSE CHOOSE v \in {t.rows[r][i] : r \in vals} :
                        \A r \in vals : v <= t.rows[r][i],
         max |-> IF vals = {} THEN NaN
                 ELSE CHOOSE v \in {t.rows[r][i] : r \in vals} :
                        \A r \in vals : v >= t.rows[r][i]]

\* pd.DataFrame()
EmptyFrame == [stats |-> <<>>, rows |-> <<>>]

StatNames == <<"count", "mean", "std", "min", "1%", "50%", "99%", "max">>

\* DataFrame.empty: no columns or no rows
is_empty_no_columns(ncols, nrows) == ncols = 0

is_empty(ncols, nrows) == ncols = 0 \/ nrows = 0

\* summary.head(max_cols)
head(xs, n) == SubSeq(xs, 1, Min(n, Len(xs)))

\* numeric_summary(df, max_cols)
numeric_summary(t, max_cols) ==
    LET num == numeric_positions(t)
    IN  IF is_empty(Len(num), Len(t.rows))
        THEN Return("numeric_summary", max_cols, EmptyFrame)
        ELSE Return("numeric_summary", max_cols,
                [stats |-> StatNames,
                 rows |-> head([k \in DOMAIN num |-> describe_column(t, num[k])],
                               max_cols)])

\* "c01", "c02", ...
ColName(i) == <<99, 48 + (i \div 10), 48 + (i % 10)>>
LabelName == <<76, 97, 98, 101, 108>>   \* "Label"

\* The rows of a generated table of k columns: all 0, all 1, all 0 but the
\* last cell, all 0 but a missing first cell.
RowValues(k) ==
    {ConstRow(k, 0), ConstRow(k, 1), [ConstRow(k, 0) EXCEPT ![k] = 1],
     [ConstRow(k, 0) EXCEPT ![1] = NaN]}

\* Tables "Label", "c02", ... of numbers, with any rows of RowValues.
RowTables ==
    UNION {{Table([i \in 1 .. k |-> Text(IF i = 1 THEN LabelName ELSE ColName(i))],
                  [i \in 1 .. k |-> IF i = 1 THEN "float64" ELSE "int64"],
                  rows) : rows \in SeqsUpTo(RowValues(k), MaxRows)} :
           k \in 1 .. MaxCols}

\* Tables "c01", "c02", ... of any storage types, with no row or one row.
DtypeTables ==
    UNION {{Table([i \in DOMAIN dts |-> Text(ColName(i))], dts, rows) :
                rows \in {<<>>, <<ConstRow(Len(dts), 0)>>}} :
           dts \in SeqsUpTo(Dtypes, MaxCols)}

\* A table of 30 columns of numbers, with n rows.
WideTable(n) ==
    Table([i \in 1 .. 30 |-> Text(ColName(i))], [i \in 1 .. 30 |-> "int64"],
          [r \in 1 .. n |-> ConstRow(30, 0)])

AuditTables == RowTables \cup DtypeTables \cup {WideTable(0), WideTable(1)}

InitAudit ==
    /\ fsExists = FALSE
    /\ fsFiles = <<>>
    /\ csvFile = NoFile
    /\ \E t \in AuditTables : heap = <<t>> /\ df0 = t
    /\ out = 0
    /\ cleanedFrom = <<0>>
    /\ ret = Idle

BasicAudit ==
    /\ \E label_col \in {LabelName, ColName(2), <<122>>},
          missing_top_k \in {1, DefaultMissingTopK} :
          ret' = basic_audit(heap[1], label_col, missing_top_k)
    /\ UNCHANGED <<fsExists, fsFiles, csvFile, heap, out, cleanedFrom, df0>>

NumericSummary ==
    /\ \E max_cols \in (0 .. MaxCols + 1) \cup {DefaultMaxCols} :
          ret' = numeric_summary(heap[1], max_cols)
    /\ UNCHANGED <<fsExists, fsFiles, csvFile, heap, out, cleanedFrom, df0>>

NextAudit == BasicAudit \/ NumericSummary

SpecAudit == InitAudit /\ [][NextAudit]_vars

---------------------------------------------------------------------------
(* The properties checked.  They are stated on the state a call leaves:   *)
(* its arguments and outcome in ret, and what it was called on.           *)

Abs(x) == IF x < 0 THEN 0 - x ELSE x

DotCsv == <<46, 99, 115, 118>>
ACsv == <<97, 46, 99, 115, 118>>
BCsv == <<98, 46, 99, 115, 118>>
NotesTxt == <<110, 111, 116, 101, 115, 46, 116, 120, 116>>
SubCCsv == <<115, 117, 98, 47, 99, 46, 99, 115, 118>>

\* The *.csv files directly inside the directory.
CsvInDir == {p \in DOMAIN fsFiles : ~contains(p, 47) /\ endswith(p, DotCsv)}

\* preferred_name is given and dir/preferred_name exists.
PreferredExists ==
    /\ ret.args # NoName
    /\ ret.args # <<>>
    /\ fsExists
    /\ ret.args \in DOMAIN fsFiles

\* The lexicographically first *.csv of the directory.
FirstCsv == CHOOSE p \in CsvInDir : \A q \in CsvInDir : ~str_lt(q, p)

C9_Listing ==
    (ret.op = "list_csv_files" /\ ret.raised = "no") =>
        LET v == ret.value
        IN  /\ Len(v) = Cardinality(CsvInDir)
            /\ {v[i].file : i \in DOMAIN v} = CsvInDir
            /\ \A i \in 1 .. Len(v) - 1 : str_lt(v[i].file, v[i + 1].file)
            /\ \A i \in DOMAIN v :
                  2 * Abs(100 * fsFiles[v[i].file] - v[i].size_mb * MiB) <= MiB
            /\ (/\ CsvInDir = {ACsv, BCsv}
                /\ fsFiles[ACsv] = 2097152
                /\ fsFiles[BCsv] = 1048576)
                  => v = << [file |-> ACsv, size_mb |-> 200],
                            [file |-> BCsv, size_mb |-> 100] >>

\* list_csv_files listed a.csv (2 MiB) and b.csv (1 MiB) of a directory that
\* also holds notes.txt and sub/c.csv.
C9_Witness ==
    /\ ret.op = "list_csv_files"
    /\ ret.raised = "no"
    /\ CsvInDir = {ACsv, BCsv}
    /\ {NotesTxt, SubCCsv} \subseteq DOMAIN fsFiles
    /\ fsFiles[ACsv] = 2097152
    /\ fsFiles[BCsv] = 1048576
    /\ Len(ret.value) = 2

\* C8: load_peek(path, nrows) of an existing CSV file of N data rows returns
\* min(nrows, N) rows, the first ones in file order, a prefix of what
\* load_full returns, under column names without leading or trailing
\* whitespace; if the path does not exist, load_peek and load_full fail with
\* FileNotFoundError.
C8_LoadPeek ==
    /\ (ret.op \in {"load_peek", "load_full"} /\ ~csvFile.exists)
          => ret.raised = NotFound
    /\ (ret.op = "load_peek" /\ csvFile.exists /\ csvFile.header # <<>>) =>
          /\ ret.raised = "no"
          /\ load_full.raised = "no"
          /\ LET got == ret.value
                 n == Len(got.rows)
             IN  /\ n = Min(ret.args, Len(csvFile.rows))
                 /\ got.rows = SubSeq(csvFile.rows, 1, n)
                 /\ got.rows = SubSeq(load_full.value.rows, 1, n)
                 /\ got.columns = load_full.value.columns
                 /\ \A i \in DOMAIN got.columns :
                       LET name == got.columns[i].txt
                       IN  name # <<>> =>
                              /\ name[1] \notin Whitespace
                              /\ name[Len(name)] \notin Whitespace

\* load_peek read 2 of the 4 data rows of a file whose first header cell is
\* padded with blanks.
C8_Witness ==
    /\ ret.op = "load_peek"
    /\ csvFile.exists
    /\ Len(csvFile.rows) = 4
    /\ csvFile.header[1] = <<32, 97, 32>>
    /\ ret.args = 2
    /\ ret.raised = "no"
    /\ Len(ret.value.rows) = 2
    /\ ret.value.columns[1] = Text(<<97>>)

\* The labels of columns at the positions of P, in column order.
RECURSIVE LabelsAt(_, _, _)
LabelsAt(columns, P, i) ==
    IF i > Len(columns) THEN <<>>
    ELSE (IF i \in P THEN <<columns[i]>> ELSE <<>>) \o LabelsAt(columns, P, i + 1)

Unnamed == <<117, 110, 110, 97, 109, 101, 100>>

\* The four lists of find_suspicious_columns, each from the column labels
\* alone.
SuspiciousLists(columns, v) ==
    LET pos == DOMAIN columns
    IN  /\ v.unnamed_columns = LabelsAt(columns,
              {i \in pos : startswith(lower(columns[i].txt), Unnamed)}, 1)
        /\ v.duplicate_columns = LabelsAt(columns,
              {i \in pos : \E j \in 1 .. i - 1 : columns[j] = columns[i]}, 1)
        /\ v.whitespace_columns = LabelsAt(columns,
              {i \in pos : columns[i].str /\ columns[i].txt # <<>>
                  /\ (columns[i].txt[1] \in Whitespace
                      \/ columns[i].txt[Len(columns[i].txt)] \in Whitespace)}, 1)
        /\ v.bom_columns = LabelsAt(columns,
              {i \in pos : columns[i].str
                  /\ \E k \in DOMAIN columns[i].txt : columns[i].txt[k] = BOM}, 1)

\* C3, as claimed: the four lists are computed independently (unnamed: the
\* lower-cased text starts with "unnamed"; duplicate: every occurrence after
\* the first; whitespace: text that differs from its stripped form; bom:
\* text containing U+FEFF), and ["Unnamed: 0", " Flow ID", "Flow ID",
\* U+FEFF "Label"] gives unnamed ["Unnamed: 0"], whitespace [" Flow ID"],
\* duplicate ["Flow ID"] and bom [U+FEFF "Label"].
C3_Original ==
    ret.op = "find_suspicious_columns" =>
        LET columns == heap[ret.args].columns
            v == ret.value
        IN  /\ SuspiciousLists(columns, v)
            /\ columns = FlowColumns =>
                  /\ v.unnamed_columns = <<FlowColumns[1]>>
                  /\ v.whitespace_columns = <<FlowColumns[2]>>
                  /\ v.duplicate_columns = <<FlowColumns[3]>>
                  /\ v.bom_columns = <<FlowColumns[4]>>

\* C3, amended: the four lists are as claimed, and on ["Unnamed: 0",
\* " Flow ID", "Flow ID", U+FEFF "Label"] they are unnamed ["Unnamed: 0"],
\* whitespace [" Flow ID"], bom [U+FEFF "Label"] and duplicate []: " Flow ID"
\* and "Flow ID" are different names, so neither repeats the other.
C3_SuspiciousColumns ==
    ret.op = "find_suspicious_columns" =>
        LET columns == heap[ret.args].columns
            v == ret.value
        IN  /\ SuspiciousLists(columns, v)
            /\ columns = FlowColumns =>
                  /\ v.unnamed_columns = <<FlowColumns[1]>>
                  /\ v.whitespace_columns = <<FlowColumns[2]>>
                  /\ v.duplicate_columns = <<>>
                  /\ v.bom_columns = <<FlowColumns[4]>>

\* find_suspicious_columns was called on the table of the four columns.
C3_Witness ==
    /\ ret.op = "find_suspicious_columns"
    /\ heap[ret.args].columns = FlowColumns
    /\ ret.value.unnamed_columns # <<>>

\* Every name of `cleaned` is the text form of the name at its position in
\* `columns`, without any U+FEFF and then without surrounding whitespace.
CleanedFrom(cleaned, columns) ==
    /\ Len(cleaned) = Len(columns)
    /\ \A i \in DOMAIN columns :
          LET noBom == LabelsAt(columns[i].txt,
                          {k \in DOMAIN columns[i].txt : columns[i].txt[k] # BOM}, 1)
              first == IF \E k \in DOMAIN noBom : noBom[k] \notin Whitespace
                       THEN CHOOSE k \in DOMAIN noBom :
                              /\ noBom[k] \notin Whitespace
                              /\ \A m \in 1 .. k - 1 : noBom[m] \in Whitespace
                       ELSE 1
              last == IF \E k \in DOMAIN noBom : noBom[k] \notin Whitespace
                      THEN CHOOSE k \in DOMAIN noBom :
                              /\ noBom[k] \notin Whitespace
                              /\ \A m \in k + 1 .. Len(noBom) : noBom[m] \in Whitespace
                      ELSE 0
          IN  cleaned[i] = Text(SubSeq(noBom, first, last))

\* C6: clean_column_names is idempotent: cleaning the result of a cleaning
\* gives the same column names and data; a cleaned name is the text form of
\* the name with every U+FEFF removed and then stripped.
C6_Idempotent ==
    ret.op = "clean_column_names" =>
        /\ CleanedFrom(heap[ret.value].columns, heap[ret.args].columns)
        /\ cleanedFrom[ret.args] > 0 => heap[ret.value] = heap[ret.args]

\* A table whose cleaning changed its names was cleaned a second time.
C6_Witness ==
    /\ ret.op = "clean_column_names"
    /\ cleanedFrom[ret.args] = 1
    /\ heap[ret.args].columns # df0.columns
    /\ \E i \in DOMAIN df0.columns :
          contains(df0.columns[i].txt, BOM) /\ contains(df0.columns[i].txt, 32)

\* C7: clean_column_names never mutates its input: after any calls the
\* caller's table has the column names and rows it was built with, the
\* table returned is another object, and renaming the columns of a returned
\* table does not show in the caller's table.
C7_InputNotMutated ==
    /\ heap # <<>> => heap[1] = df0
    /\ ret.op = "clean_column_names" => ret.value # ret.args

\* The caller renamed the columns of the cleaning of its table, and the two
\* tables differ.
C7_Witness ==
    /\ ret.op = "rename"
    /\ cleanedFrom[out] = 0 - 1
    /\ heap[out].columns # df0.columns
    /\ heap[out].columns # clean_names(df0.columns)

\* C10: find_suspicious_columns of a cleaned table reports no whitespace
\* column and no bom column, and cleaning keeps the number and the order of
\* the columns; duplicate columns may appear, since cleaning can make two
\* different names equal.
C10_CleanThenFind ==
    /\ (ret.op = "find_suspicious_columns" /\ cleanedFrom[ret.args] > 0) =>
          /\ ret.value.whitespace_columns = <<>>
          /\ ret.value.bom_columns = <<>>
    /\ ret.op = "clean_column_names" =>
          CleanedFrom(heap[ret.value].columns, heap[ret.args].columns)

\* The cleaning of a table without duplicate columns has a duplicate column,
\* and no whitespace or bom column.
C10_Witness ==
    /\ ret.op = "find_suspicious_columns"
    /\ cleanedFrom[ret.args] = 1
    /\ \A i, j \in DOMAIN df0.columns : i # j => df0.columns[i] # df0.columns[j]
    /\ ret.value.duplicate_columns # <<>>
    /\ ret.value.whitespace_columns = <<>>

\* The rows of the audited table equal in all columns to an earlier row.
RepeatedRows ==
    LET t == heap[1]
    IN  {i \in DOMAIN t.rows : \E j \in 1 .. i - 1 :
            \A c \in DOMAIN t.columns : t.rows[j][c] = t.rows[i][c]}

\* C4: basic_audit gives n_duplicates = the number of rows equal in all
\* columns to an earlier row, and duplicate_rate = n_duplicates / row count,
\* or 0.0 and no division error for a table without rows; one repeated row
\* out of 4 gives 1 and 0.25.
C4_Duplicates ==
    ret.op = "basic_audit" =>
        LET n == Len(heap[1].rows)
            d == Cardinality(RepeatedRows)
        IN  /\ ret.raised = "no"
            /\ ret.value.n_duplicates = d
            /\ ret.value.duplicate_rate.den > 0
            /\ n > 0 => ret.value.duplicate_rate.num * n
                            = d * ret.value.duplicate_rate.den
            /\ n = 0 => ret.value.duplicate_rate.num = 0
            /\ (n = 4 /\ d = 1) => 4 * ret.value.duplicate_rate.num
                                      = ret.value.duplicate_rate.den

\* basic_audit found one repeated row among 4 rows of several columns.
C4_Witness ==
    /\ ret.op = "basic_audit"
    /\ Len(heap[1].rows) = 4
    /\ Len(heap[1].columns) >= 2
    /\ ret.value.n_duplicates = 1
    /\ ret.value.duplicate_rate = Frac(1, 4)

\* The positions of the numeric-typed columns of the summarised table.
NumericCols == {i \in DOMAIN heap[1].columns : heap[1].dtypes[i] \in {"int64", "float64"}}

\* The summary has a row per numeric column, in column order, up to max_cols.
SummaryRows ==
    /\ Len(ret.value.rows) = Min(ret.args, Cardinality(NumericCols))
    /\ \A k \in DOMAIN ret.value.rows :
          \E i \in NumericCols :
             /\ Cardinality({j \in NumericCols : j <= i}) = k
             /\ ret.value.rows[k].column = heap[1].columns[i]

\* C5, as claimed: the result is empty if and only if the table has no
\* numeric column; otherwise it has min(max_cols, numeric columns) rows, one
\* per numeric column in column order, so 30 numeric columns give 25 rows
\* under the default max_cols, whatever the row count.
C5_Original ==
    ret.op = "numeric_summary" =>
        /\ ret.value = EmptyFrame <=> NumericCols = {}
        /\ NumericCols # {} => SummaryRows
        /\ (Cardinality(NumericCols) = 30 /\ ret.args = DefaultMaxCols)
              => Len(ret.value.rows) = 25

\* C5, amended: the result is empty if and only if the table has no numeric
\* column or no row; otherwise it has min(max_cols, numeric columns) rows,
\* one per numeric column in column order, so 30 numeric columns and at least
\* one row give 25 rows under the default max_cols.
C5_NumericSummary ==
    ret.op = "numeric_summary" =>
        /\ ret.value = EmptyFrame <=> (NumericCols = {} \/ heap[1].rows = <<>>)
        /\ (NumericCols # {} /\ heap[1].rows # <<>>) => SummaryRows
        /\ (/\ Cardinality(NumericCols) = 30
            /\ heap[1].rows # <<>>
            /\ ret.args = DefaultMaxCols)
              => Len(ret.value.rows) = 25

\* numeric_summary of 30 numeric columns and one row, under the default
\* max_cols, has 25 rows.
C5_Witness ==
    /\ ret.op = "numeric_summary"
    /\ Cardinality(NumericCols) = 30
    /\ heap[1].rows # <<>>
    /\ ret.args = DefaultMaxCols
    /\ Len(ret.value.rows) = 25

===========================================================================
